---- MODULE Spec2Model ----
(***************************************************************************)
(* Model of the fetch-and-extract pipeline of alavancainvestimentos-service *)
(* (app/main.py, app/data/scraper.py, app/data/extractor.py).               *)
(*                                                                          *)
(* Python values are modelled as follows.  A str is a TLA+ string; where    *)
(* the code works on the characters of a str (file names: glob, sorted)     *)
(* the str is a sequence of one-character strings.  None is the value None  *)
(* below.  A dict is a function whose DOMAIN is its set of keys.            *)
(* DataExtractor.extract_table, which main() does not call, is modelled as  *)
(* the example program of extractor.py calls it.                            *)
(***************************************************************************)
EXTENDS Integers, Sequences, FiniteSets, TLC

VARIABLES
    csv,                \* the records load_csv_data returns (main.py:35), as loaded
    records,            \* the same list, its dicts mutated in place by the loop
    dir,                \* the files of output_dir "tmp-al-service"
    run,                \* which execution of main() over the same output_dir
    pc,                 \* position of main()
    i,                  \* index of the record of the for loop (1-based)
    html_content,       \* main's local html_content
    latest_file,        \* main's local latest_file (NoFile when unset)
    details,            \* main's local details (result of extract_property_details)
    exc,                \* the exception in flight (NoExc when none)
    processed_records,  \* main's local list: references to dicts of records
    df,                 \* the DataFrame built from processed_records (main.py:124)
    sink,               \* what the export wrote: [xlsx, csv], each a list of rows
    trace,              \* history, per record of this run: what was called on it
    first_run,          \* history: records as the first run left them
    html_sample,        \* the table of the page given to extract_table
    financials,         \* what extract_table returned (extractor.py:288)
    emitted             \* history: the rows extract_table appended, by position

\* The state of the example program of extractor.py.
table_vars == <<html_sample, financials, emitted>>

vars == <<csv, records, dir, run, pc, i, html_content, latest_file, details, exc,
          processed_records, df, sink, trace, first_run, table_vars>>

(***************************************************************************)
(* Bounds of the model.                                                     *)
(***************************************************************************)
MaxRecords == 2      \* longest batch of records
MaxRuns == 2         \* executions of main() over one output directory
MaxDirFiles == 3     \* most files in the directory of the lookup specification
MaxRows == 3         \* most rows of a table given to extract_table

(***************************************************************************)
(* Python values.                                                           *)
(***************************************************************************)
None == "None"

\* bool(v) of a str-or-None value.
Truthy(v) == v # None /\ v # ""

\* dict.get(key, default)
Get(d, key, default) == IF key \in DOMAIN d THEN d[key] ELSE default

\* d[key] = value
Put(d, key, value) == [k \in DOMAIN d \cup {key} |-> IF k = key THEN value ELSE d[k]]

\* d.update(other): keys of other overwrite keys of d
Update_Replace(d, other) == other
Update(d, other) ==
    [k \in DOMAIN d \cup DOMAIN other |-> IF k \in DOMAIN other THEN other[k] ELSE d[k]]

\* Exceptions: type and args.  str(e) is the empty string for an exception
\* built without arguments, and the argument for one built with a message.
NoExc == [type |-> "", args |-> <<>>]
str(e) == IF e.args = <<>> THEN "" ELSE e.args[1]

(***************************************************************************)
(* Characters and the order of str comparison (sorted() compares code      *)
(* points; shorter prefix first).                                           *)
(***************************************************************************)
\* The characters that occur in file names and patterns, by ascending code point.
CodePoints ==
    <<"*", ".", "0", "1", "2", "3", "4", "5", "6", "7", "8", "9", "?", "_",
      "a", "b", "c", "d", "e", "f", "g", "h", "i", "j", "k", "l", "m", "n",
      "o", "p", "q", "r", "s", "t", "u", "v", "w", "x", "y", "z">>

ord(c) == CHOOSE k \in 1..Len(CodePoints) : CodePoints[k] = c

\* a < b for two str
StrLess(a, b) ==
    \E k \in 1..(Len(a) + 1) :
        /\ k <= Len(b)
        /\ \A j \in 1..(k - 1) : a[j] = b[j]
        /\ \/ k = Len(a) + 1
           \/ k <= Len(a) /\ ord(a[k]) < ord(b[k])

\* Decimal rendering of a non-negative int inside an f-string.
RECURSIVE Digits(_)
Digits(n) ==
    LET d == <<"0", "1", "2", "3", "4", "5", "6", "7", "8", "9">>[(n % 10) + 1]
    IN  IF n < 10 THEN <<d>> ELSE Digits(n \div 10) \o <<d>>

\* The characters of the identifiers the model uses.
IdChars(id) ==
    CASE id = "7" -> <<"7">>
      [] id = "7_1" -> <<"7", "_", "1">>
      [] id = "?" -> <<"?">>
      [] id = "unknown" -> <<"u", "n", "k", "n", "o", "w", "n">>

\* f"imovel_{id_imovel}_{int(time.time())}.html"
FileName(id, ts) ==
    <<"i", "m", "o", "v", "e", "l", "_">> \o IdChars(id) \o <<"_">> \o Digits(ts)
        \o <<".", "h", "t", "m", "l">>

\* f"imovel_{id_imovel}_*.html"
Pattern(id) ==
    <<"i", "m", "o", "v", "e", "l", "_">> \o IdChars(id)
        \o <<"_", "*", ".", "h", "t", "m", "l">>

\* fnmatch of glob.glob: "*" matches any run of characters, "?" any one character,
\* every other character itself (no name or pattern of the model holds a "[").
RECURSIVE FnMatch(_, _, _, _)
FnMatch(name, n, pat, p) ==
    IF p > Len(pat) THEN n > Len(name)
    ELSE IF pat[p] = "*"
         THEN \E k \in n..(Len(name) + 1) : FnMatch(name, k, pat, p + 1)
         ELSE /\ n <= Len(name)
              /\ pat[p] = "?" \/ pat[p] = name[n]
              /\ FnMatch(name, n + 1, pat, p + 1)

(***************************************************************************)
(* The output directory.  A file is [id, ts, html, readable]: it was        *)
(* written for identifier id at Unix time ts, so its name is                *)
(* FileName(id, ts); html is its content; readable says whether open() and  *)
(* read() succeed on it.                                                    *)
(***************************************************************************)
PathOf(f) == FileName(f.id, f.ts)

\* glob.glob(os.path.join(output_dir, pattern))
glob(d, id) == {f \in d : FnMatch(PathOf(f), 1, Pattern(id), 1)}

\* sorted(existing_files): ascending by str comparison of the paths
RECURSIVE sorted(_)
sorted(files) ==
    IF files = {} THEN <<>>
    ELSE LET least == CHOOSE f \in files :
                          \A g \in files \ {f} : StrLess(PathOf(f), PathOf(g))
         IN  <<least>> \o sorted(files \ {least})

LatestFirst(existing_files) == sorted(existing_files)[1]

\* latest_file = sorted(existing_files)[-1]
Latest(existing_files) == sorted(existing_files)[Cardinality(existing_files)]

(***************************************************************************)
(* HTML.  An html str is modelled by what BeautifulSoup(html, "html.parser")*)
(* and the selectors of extract_property_details find in it:                *)
(*   empty        the str is ""                                             *)
(*   malformed    markup the parser rejects (the constructor raises)        *)
(*   container    select_one("#dadosImovel") finds an element               *)
(*   raw          container.get_text(separator="\n", strip=True)            *)
(*   h5           the str children of the container's first h5, joined and  *)
(*                stripped; <<>> when there is no h5                        *)
(*   found        per label, the text nodes of the container that contain   *)
(*                the label, in document order, each with                   *)
(*                  strong: text of parent.find(['strong','b']), or None    *)
(*                  next:   text of parent.find_next(['strong','b','span']),*)
(*                          or None                                         *)
(*   related_box  select_one(".related-box") finds an element               *)
(*   endereco_p   the "Endereco:" paragraph of the related box: its text    *)
(*                joined by " ", the label removed, stripped (characters);  *)
(*                <<>> when no text node holds the label or it has no <p>   *)
(*                ancestor                                                  *)
(*   desc_p       likewise for "Descricao:"                                 *)
(*   pag_p        text of the paragraph that holds "FORMAS DE PAGAMENTO     *)
(*                ACEITAS"; <<>> when there is none                         *)
(*   p_val        the words of the first <p> of .content, joined by " ";    *)
(*                <<>> when there is no .content or it has no <p>           *)
(* An optional value is <<>> (absent) or <<v>> (present).                   *)
(***************************************************************************)
Labels ==
    {"Numero do imovel", "Matricula(s)", "Inscricao imobiliaria", "Tipo de imovel",
     "Area do terreno", "Area privativa", "Quartos", "Garagem", "Edital",
     "Averbacao dos leiloes"}

NoMatches == [l \in Labels |-> <<>>]

EmptyHtml ==
    [empty |-> TRUE, malformed |-> FALSE, container |-> FALSE, raw |-> "",
     h5 |-> <<>>, found |-> NoMatches, related_box |-> FALSE, endereco_p |-> <<>>,
     desc_p |-> <<>>, pag_p |-> <<>>, p_val |-> <<>>]

\* The words of a paragraph text that the patterns of extract_property_details
\* tell apart: the labels, amounts ("R$ 2.090.745,83"), dates ("10/05/2024")
\* and any other word.
Amounts == {"R$ 100", "R$ 200"}
Dates == {"10/05/2024", "20/06/2024"}

\* re.search(label + r":?\s*(R\$\s*[\d\.,]+)", text): group(1) of the leftmost
\* occurrence of the label that an amount follows at once; None without one.
SearchAmountAfter(text, label) ==
    LET hits == {k \in 1..(Len(text) - 1) : text[k] = label /\ text[k + 1] \in Amounts}
    IN  IF hits = {} THEN None
        ELSE text[(CHOOSE k \in hits : \A j \in hits : k <= j) + 1]

\* re.search(label + r".*:?\s*(<shape>)", text): the ".*" is greedy, so group(1)
\* is the LAST word of the shape after the leftmost occurrence of the label.
SearchLastAfter(text, label, shape) ==
    LET starts == {k \in 1..Len(text) : text[k] = label}
        first == CHOOSE k \in starts : \A j \in starts : k <= j
        hits == {k \in 1..Len(text) : k > first /\ text[k] \in shape}
    IN  IF starts = {} \/ hits = {} THEN None
        ELSE text[CHOOSE k \in hits : \A j \in hits : j <= k]

\* re.search(r"Data.*Leilao.*:?\s*(date)", text): a "Data", later a word that
\* holds "Leilao", later a date; group(1) is the last such date.
SearchGenericDate(text) ==
    LET leilao == {"Leilao", "1o Leilao", "2o Leilao"}
        ok == {k \in 1..Len(text) :
                 /\ text[k] \in Dates
                 /\ \E a \in 1..Len(text), b \in 1..Len(text) :
                        a < b /\ b < k /\ text[a] = "Data" /\ text[b] \in leilao}
    IN  IF ok = {} THEN None ELSE text[CHOOSE k \in ok : \A j \in ok : j <= k]

IsDigit(c) == c \in {"0", "1", "2", "3", "4", "5", "6", "7", "8", "9"}

\* re.search(r"\d{5}-\d{3}", s): the positions where the pattern matches
CepStarts(s) ==
    {k \in 1..(Len(s) - 8) :
        /\ \A j \in 0..4 : IsDigit(s[k + j])
        /\ s[k + 5] = "-"
        /\ \A j \in 6..8 : IsDigit(s[k + j])}

\* cep_match.group(0) if cep_match else "N/A"   (extractor.py:178-179)
CepOf(endereco) ==
    IF CepStarts(endereco) = {} THEN <<"N", "/", "A">>
    ELSE LET k == CHOOSE a \in CepStarts(endereco) : \A b \in CepStarts(endereco) : a <= b
         IN  SubSeq(endereco, k, k + 8)

\* get_text_after_label(label_text)   (extractor.py:133-150)
RECURSIVE FirstHit(_)
FirstHit(matches) ==
    IF matches = <<>> THEN None
    ELSE IF Head(matches).strong # None THEN Head(matches).strong
    ELSE IF Head(matches).next # None THEN Head(matches).next
    ELSE FirstHit(Tail(matches))

get_text_after_label(html, label_text) == FirstHit(html.found[label_text])

\* One key of a dict, or no key.
Entry(key, value) == key :> value
When(cond, d) == IF cond THEN d ELSE <<>>

\* extract_element_text("#dadosImovel", separator="\n")   (extractor.py:38-53)
extract_element_text(html) == IF html.container THEN html.raw ELSE None

\* The keys extract_property_details may assign.
Vocabulary ==
    {"Cidade_Bairro", "Numero_Imovel", "Matricula", "Inscricao_Imobiliaria",
     "Endereco", "CEP", "Valor_Avaliacao", "Valor_Minimo", "Data_1_Leilao",
     "Data_2_Leilao", "Tipo_Imovel", "Area_Terreno", "Area_Privativa", "Quartos",
     "Garagem", "Descricao", "Edital", "Averbacao_Leiloes", "Condicoes_Pagamento"}

\* The label-keyed fields: assigned whether or not the label is found.
LabelDetails(html) ==
    [k \in {"Numero_Imovel", "Matricula", "Inscricao_Imobiliaria", "Tipo_Imovel",
            "Area_Terreno", "Area_Privativa", "Quartos", "Garagem", "Edital",
            "Averbacao_Leiloes"} |->
        get_text_after_label(html,
            CASE k = "Numero_Imovel" -> "Numero do imovel"
              [] k = "Matricula" -> "Matricula(s)"
              [] k = "Inscricao_Imobiliaria" -> "Inscricao imobiliaria"
              [] k = "Tipo_Imovel" -> "Tipo de imovel"
              [] k = "Area_Terreno" -> "Area do terreno"
              [] k = "Area_Privativa" -> "Area privativa"
              [] k = "Quartos" -> "Quartos"
              [] k = "Garagem" -> "Garagem"
              [] k = "Edital" -> "Edital"
              [] k = "Averbacao_Leiloes" -> "Averbacao dos leiloes")]

\* The fields of the first paragraph of .content   (extractor.py:183-209)
ValueDetails(text) ==
    LET leilao1 == SearchLastAfter(text, "1o Leilao", Dates)
        generic == SearchGenericDate(text)
    IN  [k \in {"Valor_Avaliacao", "Valor_Minimo", "Data_1_Leilao", "Data_2_Leilao"} |->
            CASE k = "Valor_Avaliacao" -> SearchAmountAfter(text, "Valor de avaliacao")
              [] k = "Valor_Minimo" -> SearchLastAfter(text, "Valor minimo", Amounts)
              [] k = "Data_1_Leilao" ->
                    IF leilao1 = None /\ generic # None THEN generic ELSE leilao1
              [] k = "Data_2_Leilao" -> SearchLastAfter(text, "2o Leilao", Dates)]

\* extract_property_details()   (extractor.py:122-240)
extract_property_details_Sentinels(html) == LabelDetails(html)
extract_property_details(html) ==
    IF ~html.container THEN <<>>
    ELSE LabelDetails(html)
         @@ When(html.h5 # <<>>, Entry("Cidade_Bairro", html.h5[1]))
         @@ When(html.related_box /\ html.endereco_p # <<>>,
                 Entry("Endereco", html.endereco_p[1])
                 @@ Entry("CEP", CepOf(html.endereco_p[1])))
         @@ When(html.p_val # <<>>, ValueDetails(html.p_val[1]))
         @@ When(html.related_box /\ html.desc_p # <<>>,
                 Entry("Descricao", html.desc_p[1]))
         @@ When(html.related_box /\ html.pag_p # <<>>,
                 Entry("Condicoes_Pagamento", html.pag_p[1]))

(***************************************************************************)
(* Tables.  The table of a page is modelled by what extract_table finds:    *)
(*   found   select_one(selector) finds the table                           *)
(*   thead   table.find('thead') finds an element                           *)
(*   rows    table.find_all('tr'), in document order (the rows of the thead *)
(*           included: find_all searches all descendants); each row is      *)
(*             in_thead  the row is a descendant of that thead              *)
(*             cells     the stripped texts of row.find_all(['td', 'th'])   *)
(***************************************************************************)
NoTable == [found |-> FALSE, thead |-> FALSE, rows |-> <<>>]

\* header_row as a position of rows (1-based), 0 for None: thead.find('tr') when
\* `if thead`, table.find('tr') otherwise   (extractor.py:101-105)
header_row(table) ==
    LET inside == {k \in 1..Len(table.rows) : table.rows[k].in_thead}
    IN  IF table.thead
        THEN IF inside = {} THEN 0 ELSE CHOOSE k \in inside : \A j \in inside : k <= j
        ELSE IF table.rows = <<>> THEN 0 ELSE 1

\* headers = [th.get_text(strip=True) for th in header_row.find_all(['th', 'td'])]
\* and [] without a header row   (extractor.py:98, 107-108)
headers(table) ==
    IF header_row(table) = 0 THEN <<>> ELSE table.rows[header_row(table)].cells

\* start_index = 1 if not thead and rows and rows[0] == header_row else 0
\* (extractor.py:112)
start_index(table) ==
    IF ~table.thead /\ table.rows # <<>> /\ header_row(table) = 1 THEN 1 ELSE 0

\* if len(cells) == len(headers)   (extractor.py:116)
cells_fit_Truncating(cells, hdrs) == Len(cells) >= Len(hdrs)
cells_fit(cells, hdrs) == Len(cells) = Len(hdrs)

\* {headers[i]: cells[i].get_text(strip=True) for i in range(len(headers))}: a
\* header text that occurs twice keeps the cell of its last position
\* (extractor.py:117)
row_data(hdrs, cells) ==
    [h \in {hdrs[j] : j \in 1..Len(hdrs)} |->
        cells[CHOOSE j \in 1..Len(hdrs) :
                  hdrs[j] = h /\ \A m \in (j + 1)..Len(hdrs) : hdrs[m] # h]]

\* for row in rows[start_index:]: the positions of the rows that are appended,
\* from position k on   (extractor.py:114-118)
RECURSIVE appended_rows(_, _)
appended_rows(table, k) ==
    IF k > Len(table.rows) THEN <<>>
    ELSE (IF cells_fit(table.rows[k].cells, headers(table)) THEN <<k>> ELSE <<>>)
             \o appended_rows(table, k + 1)

\* The positions of the rows extract_table appends.
table_rows(table) ==
    IF ~table.found THEN <<>> ELSE appended_rows(table, start_index(table) + 1)

\* extract_table(selector)   (extractor.py:82-120)
extract_table(table) ==
    [n \in 1..Len(table_rows(table)) |->
        row_data(headers(table), table.rows[table_rows(table)[n]].cells)]

(***************************************************************************)
(* The pages of the model.                                                  *)
(***************************************************************************)
Cep == <<"8", "0", "0", "1", "0", "-", "0", "0", "0">>

\* A page whose container holds every element the extractor looks for.
FullHtml ==
    [empty |-> FALSE, malformed |-> FALSE, container |-> TRUE, raw |-> "text of page",
     h5 |-> <<"CURITIBA - CENTRO">>,
     found |-> [l \in Labels |-> <<[strong |-> "value", next |-> None]>>],
     related_box |-> TRUE,
     endereco_p |-> <<(<<"r", "u", "a", " ">> \o Cep)>>,
     desc_p |-> <<"Casa, 2 qto(s)">>,
     pag_p |-> <<"FORMAS DE PAGAMENTO ACEITAS: a vista">>,
     p_val |-> <<(<<"Valor de avaliacao", "R$ 200", "Valor minimo", "R$ 100",
                   "1o Leilao", "10/05/2024">>)>>]

\* A page without the container element.
NoContainerHtml ==
    [EmptyHtml EXCEPT !.empty = FALSE]

\* A page whose markup the parser rejects.
MalformedHtml ==
    [EmptyHtml EXCEPT !.empty = FALSE, !.malformed = TRUE]

NoFile == [id |-> "", ts |-> 0, html |-> EmptyHtml, readable |-> FALSE]

(***************************************************************************)
(* The fetch collaborator (scraper.py).                                     *)
(***************************************************************************)
\* What the browser does on driver.get(url) and driver.page_source.
DriverOutcomes ==
    {[raises |-> TRUE, page_source |-> EmptyHtml]}
        \cup {[raises |-> FALSE, page_source |-> h] : h \in {EmptyHtml, FullHtml}}

\* BrowserScraper.get_page_source(url): any exception of the driver is caught
\* and "" returned   (scraper.py:58-86)
get_page_source(outcome) ==
    IF outcome.raises THEN EmptyHtml ELSE outcome.page_source

\* scraper.save_page_source: BrowserScraper defines __init__, _setup_driver,
\* get_page_source, close, __enter__ and __exit__ and no save_page_source, so the
\* attribute lookup of main.py:95 raises.
AttributeError ==
    [type |-> "AttributeError",
     args |-> <<"'BrowserScraper' object has no attribute 'save_page_source'">>]

\* What the html parser raises on markup it rejects.
ParserRejectedMarkup ==
    [type |-> "ParserRejectedMarkup", args |-> <<"markup rejected by the parser">>]

\* What to_excel / to_csv raise when they cannot write.
ExportError == [type |-> "OSError", args |-> <<"cannot write the table">>]

(***************************************************************************)
(* main(): the statements of the loop body, as functions of the record.     *)
(***************************************************************************)
\* if not html_content   (main.py:83)
NeedsFetch_Always(html) == TRUE
NeedsFetch_Never(html) == FALSE
NeedsFetch(html) == html.empty

\* record["saved_html_path"] = latest_file   (main.py:78)
annotate_hit(record, f) == Put(record, "saved_html_path", PathOf(f))

\* record["scraping_status"] = "failed"   (main.py:89)
mark_failed_AsError(record) == Put(record, "scraping_status", "error")
mark_failed_Typo(record) == Put(record, "scraping_status", "fail")
mark_failed(record) == Put(record, "scraping_status", "failed")

\* processed_records.append(record) of the failed branch   (main.py:90)
keep_failed_Drop(processed, k) == processed
keep_failed(processed, k) == Append(processed, k)

\* The except clause of the loop body   (main.py:116-119)
handle_error_NoMessage(record, e) == Put(record, "scraping_status", "error")
handle_error(record, e) ==
    Put(Put(record, "scraping_status", "error"), "error_message", str(e))

\* Merge, raw text and status of a record whose page was parsed   (main.py:100-113)
merge_details(record, html) ==
    LET d == extract_property_details(html)
        merged == IF DOMAIN d # {} THEN Update(record, d) ELSE record
        raw_text == extract_element_text(html)
        with_raw == Put(merged, "raw_dados_imovel",
                        IF Truthy(raw_text) THEN raw_text ELSE "Not Found")
    IN  Put(with_raw, "scraping_status", "success")

\* pd.DataFrame(processed_records): one row per reference, as the dict is now
DataFrame(recs, processed) == [k \in 1..Len(processed) |-> recs[processed[k]]]

\* Where main() is after df.to_csv raised: nothing encloses the call   (main.py:137)
AfterCsvFailure_Swallowed == "returned"
AfterCsvFailure == "raised"

(***************************************************************************)
(* History kept per record of the current run.                              *)
(***************************************************************************)
NoTrace ==
    [began |-> FALSE,          \* the loop body's try block was entered
     sel |-> NoFile,           \* latest_file, when the lookup found files
     read |-> "none",          \* "ok" / "fail": open+read of latest_file
     fetches |-> 0,            \* calls of get_page_source
     fetch_url |-> None,       \* the url of the last call
     driver_raised |-> FALSE,  \* the driver raised inside get_page_source
     fetched_empty |-> FALSE,  \* get_page_source returned ""
     fetched_page |-> FALSE,   \* get_page_source returned a page
     raised |-> "",            \* statement whose exception reached main's handler
     extracted |-> FALSE,      \* extract_property_details was called
     writes |-> 0]             \* assignments to record["scraping_status"]

(***************************************************************************)
(* Inputs.                                                                  *)
(***************************************************************************)
Url == "https://venda-imoveis.caixa.gov.br/7"

\* Records as load_csv_data returns them: "link" and "id_imovel" are columns the
\* file may lack; "preco" stands for the pass-through columns.
InputRecords ==
    {("preco" :> "100") @@ ("link" :> Url) @@ ("id_imovel" :> "7"),
     ("preco" :> "100") @@ ("link" :> Url),
     ("preco" :> "100") @@ ("id_imovel" :> "7")}

Batches == UNION {[1..n -> InputRecords] : n \in 1..MaxRecords}

\* What a file of the output directory may hold.
FileStates ==
    {[html |-> h, readable |-> TRUE] :
        h \in {EmptyHtml, FullHtml, NoContainerHtml, MalformedHtml}}
        \cup {[html |-> FullHtml, readable |-> FALSE]}

File(id, ts, st) == [id |-> id, ts |-> ts, html |-> st.html, readable |-> st.readable]

\* Directories: sets of files with distinct names.
DirsOver(ids, stamps, states, most) ==
    {d \in SUBSET {File(id, ts, st) : id \in ids, ts \in stamps, st \in states} :
        /\ Cardinality(d) <= most
        /\ \A f \in d, g \in d : (f.id = g.id /\ f.ts = g.ts) => f = g}

PipelineDirs == DirsOver({"7"}, {100, 200}, FileStates, 2)

(***************************************************************************)
(* main(): state after the records are loaded and the scraper is open       *)
(* (main.py:35-53), for every batch and every content of the directory.     *)
(***************************************************************************)
StartOfRun(batch) ==
    /\ records = batch
    /\ pc = "loop"
    /\ i = 1
    /\ html_content = EmptyHtml
    /\ latest_file = NoFile
    /\ details = <<>>
    /\ exc = NoExc
    /\ processed_records = <<>>
    /\ df = <<>>
    /\ sink = [xlsx |-> <<>>, csv |-> <<>>]
    /\ trace = [k \in 1..Len(batch) |-> NoTrace]
    /\ html_sample = NoTable
    /\ financials = <<>>
    /\ emitted = <<>>

Init ==
    /\ csv \in Batches
    /\ dir \in PipelineDirs
    /\ run = 1
    /\ first_run = <<>>
    /\ StartOfRun(csv)

\* url = record.get("link"); id_imovel = record.get("id_imovel", "unknown")
url == Get(records[i], "link", None)
id_imovel == Get(records[i], "id_imovel", "unknown")

\* for i, record in enumerate(records): a record without link is skipped
\* (main.py:55-61)
SkipNoLink ==
    /\ pc = "loop"
    /\ i <= Len(records)
    /\ ~Truthy(url)
    /\ i' = i + 1
    /\ UNCHANGED table_vars
    /\ UNCHANGED <<csv, records, dir, run, pc, html_content, latest_file, details,
                   exc, processed_records, df, sink, trace, first_run>>

\* Entering the try block: html_content = ""   (main.py:63-67)
BeginRecord ==
    /\ pc = "loop"
    /\ i <= Len(records)
    /\ Truthy(url)
    /\ pc' = "lookup"
    /\ html_content' = EmptyHtml
    /\ trace' = [trace EXCEPT ![i].began = TRUE]
    /\ UNCHANGED table_vars
    /\ UNCHANGED <<csv, records, dir, run, i, latest_file, details, exc,
                   processed_records, df, sink, first_run>>

\* Check for an existing file: glob, sorted()[-1], open and read; a read that
\* fails is caught and leaves html_content = ""   (main.py:68-83)
CacheLookup ==
    /\ pc = "lookup"
    /\ LET existing_files ==
               IF Truthy(id_imovel) /\ id_imovel # "unknown"
               THEN glob(dir, id_imovel) ELSE {}
       IN  IF existing_files = {}
           THEN /\ pc' = IF NeedsFetch(html_content) THEN "fetch" ELSE "extract"
                /\ UNCHANGED <<records, latest_file, html_content, trace>>
           ELSE LET f == Latest(existing_files)
                    html == IF f.readable THEN f.html ELSE EmptyHtml
                IN  /\ latest_file' = f
                    /\ html_content' = html
                    /\ records' = IF f.readable
                                  THEN [records EXCEPT ![i] = annotate_hit(@, f)]
                                  ELSE records
                    /\ trace' = [trace EXCEPT
                                    ![i].sel = f,
                                    ![i].read = IF f.readable THEN "ok" ELSE "fail"]
                    /\ pc' = IF NeedsFetch(html) THEN "fetch" ELSE "extract"
    /\ UNCHANGED table_vars
    /\ UNCHANGED <<csv, dir, run, i, details, exc, processed_records, df, sink,
                   first_run>>

\* html_content = scraper.get_page_source(url); empty content marks the record
\* failed, appends it and continues   (main.py:85-91)
Fetch ==
    /\ pc = "fetch"
    /\ \E outcome \in DriverOutcomes :
         LET html == get_page_source(outcome)
             called == [trace EXCEPT ![i].fetches = @ + 1,
                                     ![i].fetch_url = url,
                                     ![i].driver_raised = outcome.raises,
                                     ![i].fetched_empty = html.empty,
                                     ![i].fetched_page = ~html.empty]
         IN  /\ html_content' = html
             /\ IF html.empty
                THEN /\ records' = [records EXCEPT ![i] = mark_failed(@)]
                     /\ processed_records' = keep_failed(processed_records, i)
                     /\ trace' = [called EXCEPT ![i].writes = @ + 1]
                     /\ i' = i + 1
                     /\ pc' = "loop"
                ELSE /\ trace' = called
                     /\ pc' = "save"
                     /\ UNCHANGED <<records, processed_records, i>>
    /\ UNCHANGED table_vars
    /\ UNCHANGED <<csv, dir, run, latest_file, details, exc, df, sink, first_run>>

\* Save raw HTML: the file name is built, then the call of save_page_source
\* raises AttributeError: nothing is written   (main.py:93-96)
SaveHtml ==
    /\ pc = "save"
    /\ exc' = AttributeError
    /\ trace' = [trace EXCEPT ![i].raised = "save"]
    /\ pc' = "except"
    /\ UNCHANGED table_vars
    /\ UNCHANGED <<csv, records, dir, run, i, html_content, latest_file, details,
                   processed_records, df, sink, first_run>>

\* DataExtractor(html_content) rejects the markup   (main.py:99)
ExtractRaises ==
    /\ pc = "extract"
    /\ html_content.malformed
    /\ exc' = ParserRejectedMarkup
    /\ trace' = [trace EXCEPT ![i].raised = "extract"]
    /\ pc' = "except"
    /\ UNCHANGED table_vars
    /\ UNCHANGED <<csv, records, dir, run, i, html_content, latest_file, details,
                   processed_records, df, sink, first_run>>

\* Extraction, merge, raw text, status success, append   (main.py:99-114)
Extract ==
    /\ pc = "extract"
    /\ ~html_content.malformed
    /\ details' = extract_property_details(html_content)
    /\ records' = [records EXCEPT ![i] = merge_details(@, html_content)]
    /\ processed_records' = Append(processed_records, i)
    /\ trace' = [trace EXCEPT ![i].extracted = TRUE, ![i].writes = @ + 1]
    /\ i' = i + 1
    /\ pc' = "loop"
    /\ UNCHANGED table_vars
    /\ UNCHANGED <<csv, dir, run, html_content, latest_file, exc, df, sink, first_run>>

\* except Exception as e: status error, message, append   (main.py:116-120)
Except ==
    /\ pc = "except"
    /\ records' = [records EXCEPT ![i] = handle_error(@, exc)]
    /\ processed_records' = Append(processed_records, i)
    /\ trace' = [trace EXCEPT ![i].writes = @ + 1]
    /\ exc' = NoExc
    /\ i' = i + 1
    /\ pc' = "loop"
    /\ UNCHANGED table_vars
    /\ UNCHANGED <<csv, dir, run, html_content, latest_file, details, df, sink,
                   first_run>>

\* The loop is over: with processed records the DataFrame is built, without any
\* main returns   (main.py:122-124, 139-140)
EndOfLoop ==
    /\ pc = "loop"
    /\ i > Len(records)
    /\ IF processed_records # <<>>
       THEN /\ df' = DataFrame(records, processed_records)
            /\ pc' = "to_excel"
       ELSE /\ pc' = "returned"
            /\ UNCHANGED df
    /\ UNCHANGED table_vars
    /\ UNCHANGED <<csv, records, dir, run, i, html_content, latest_file, details, exc,
                   processed_records, sink, trace, first_run>>

\* df.to_excel(excel_path) succeeds   (main.py:127-132)
ToExcel ==
    /\ pc = "to_excel"
    /\ sink' = [sink EXCEPT !.xlsx = <<df>>]
    /\ pc' = "returned"
    /\ UNCHANGED table_vars
    /\ UNCHANGED <<csv, records, dir, run, i, html_content, latest_file, details, exc,
                   processed_records, df, trace, first_run>>

\* df.to_excel raises: caught, fallback to CSV   (main.py:133-136)
ToExcelFails ==
    /\ pc = "to_excel"
    /\ exc' = ExportError
    /\ pc' = "to_csv"
    /\ UNCHANGED table_vars
    /\ UNCHANGED <<csv, records, dir, run, i, html_content, latest_file, details,
                   processed_records, df, sink, trace, first_run>>

\* df.to_csv(csv_path) succeeds   (main.py:137-138)
ToCsv ==
    /\ pc = "to_csv"
    /\ sink' = [sink EXCEPT !.csv = <<df>>]
    /\ exc' = NoExc
    /\ pc' = "returned"
    /\ UNCHANGED table_vars
    /\ UNCHANGED <<csv, records, dir, run, i, html_content, latest_file, details,
                   processed_records, df, trace, first_run>>

\* df.to_csv raises inside the except clause: nothing catches it   (main.py:137)
ToCsvFails ==
    /\ pc = "to_csv"
    /\ exc' = ExportError
    /\ pc' = AfterCsvFailure
    /\ UNCHANGED table_vars
    /\ UNCHANGED <<csv, records, dir, run, i, html_content, latest_file, details,
                   processed_records, df, sink, trace, first_run>>

\* main() is executed again over the same input file and output directory.
Rerun ==
    /\ pc \in {"returned", "raised"}
    /\ run < MaxRuns
    /\ run' = run + 1
    /\ first_run' = IF run = 1 THEN records ELSE first_run
    /\ records' = csv
    /\ pc' = "loop"
    /\ i' = 1
    /\ html_content' = EmptyHtml
    /\ latest_file' = NoFile
    /\ details' = <<>>
    /\ exc' = NoExc
    /\ processed_records' = <<>>
    /\ df' = <<>>
    /\ sink' = [xlsx |-> <<>>, csv |-> <<>>]
    /\ trace' = [k \in 1..Len(csv) |-> NoTrace]
    /\ UNCHANGED table_vars
    /\ UNCHANGED <<csv, dir>>

Next ==
    \/ SkipNoLink
    \/ BeginRecord
    \/ CacheLookup
    \/ Fetch
    \/ SaveHtml
    \/ ExtractRaises
    \/ Extract
    \/ Except
    \/ EndOfLoop
    \/ ToExcel
    \/ ToExcelFails
    \/ ToCsv
    \/ ToCsvFails
    \/ Rerun

Spec == Init /\ [][Next]_vars

(***************************************************************************)
(* The cache lookup as a function of the directory: the program at the      *)
(* lookup of a record, for every directory of up to MaxDirFiles files       *)
(* written for two identifiers, one a prefix of the other, at timestamps of *)
(* one, two and three digits; the record has one of the two identifiers or  *)
(* one that is a glob metacharacter.                                        *)
(***************************************************************************)
LookupRecords ==
    {("preco" :> "100") @@ ("link" :> Url) @@ ("id_imovel" :> id) :
        id \in {"7", "7_1", "?"}}

LookupDirs ==
    DirsOver({"7", "7_1"}, {9, 10, 100, 200}, {[html |-> FullHtml, readable |-> TRUE]},
             MaxDirFiles)

AtStatement(batch, at, html) ==
    /\ csv = batch
    /\ records = batch
    /\ run = 1
    /\ first_run = <<>>
    /\ pc = at
    /\ i = 1
    /\ html_content = html
    /\ latest_file = NoFile
    /\ details = <<>>
    /\ exc = NoExc
    /\ processed_records = <<>>
    /\ df = <<>>
    /\ sink = [xlsx |-> <<>>, csv |-> <<>>]
    /\ trace = [k \in 1..Len(batch) |-> [NoTrace EXCEPT !.began = TRUE]]
    /\ html_sample = NoTable
    /\ financials = <<>>
    /\ emitted = <<>>

InitLookup ==
    /\ dir \in LookupDirs
    /\ \E r \in LookupRecords : AtStatement(<<r>>, "lookup", EmptyHtml)

NextLookup == CacheLookup

SpecLookup == InitLookup /\ [][NextLookup]_vars

(***************************************************************************)
(* extract_property_details as a function of the page: the program at the   *)
(* extraction of a record, for every combination of the elements the        *)
(* extractor looks for.                                                     *)
(***************************************************************************)
ExtractPages ==
    {[empty |-> FALSE, malformed |-> m, container |-> c, raw |-> raw, h5 |-> h5,
      found |-> found, related_box |-> box, endereco_p |-> e, desc_p |-> d,
      pag_p |-> pg, p_val |-> pv] :
        m \in {FALSE}, c \in BOOLEAN, raw \in {"text of page"},
        h5 \in {<<>>, <<"CURITIBA - CENTRO">>},
        found \in {NoMatches,
                   [l \in Labels |-> <<[strong |-> "value", next |-> None]>>],
                   [l \in Labels |-> <<[strong |-> None, next |-> None],
                                       [strong |-> None, next |-> "value"]>>],
                   [l \in Labels |-> <<[strong |-> "", next |-> "value"],
                                       [strong |-> "other", next |-> None]>>]},
        box \in BOOLEAN,
        e \in {<<>>, <<(<<"r", "u", "a", " ">> \o Cep)>>, <<(<<"r", "u", "a">>)>>},
        d \in {<<>>, <<"Casa, 2 qto(s)">>},
        pg \in {<<>>, <<"FORMAS DE PAGAMENTO ACEITAS: a vista">>},
        pv \in {<<>>, <<(<<"sem", "valores">>)>>,
                <<(<<"Valor de avaliacao", "R$ 200", "Valor minimo", "R$ 100",
                     "1o Leilao", "10/05/2024">>)>>,
                <<(<<"1o Leilao", "10/05/2024", "2o Leilao", "20/06/2024">>)>>,
                <<(<<"Data", "Leilao", "10/05/2024">>)>>}}
        \cup {MalformedHtml}

InitExtract ==
    /\ dir = {}
    /\ \E h \in ExtractPages :
         AtStatement(<<("preco" :> "100") @@ ("link" :> Url) @@ ("id_imovel" :> "7")>>,
                     "extract", h)

NextExtract == Extract \/ ExtractRaises

SpecExtract == InitExtract /\ [][NextExtract]_vars

(***************************************************************************)
(* extract_table as the example program of extractor.py calls it            *)
(* (extractor.py:282-288), for every table of up to MaxRows rows.           *)
(***************************************************************************)
\* The cell texts of a row: none, one, two (the same text twice included) and
\* three cells.
RowCells ==
    {<<>>, <<"Year">>, <<"Year", "Revenue">>, <<"2023", "500B">>, <<"Year", "Year">>,
     <<"2022", "450B", "10B">>}

TableRows == {[in_thead |-> t, cells |-> c] : t \in BOOLEAN, c \in RowCells}

\* A row can be inside the thead only when the table has one.
Tables ==
    {NoTable} \cup
    {table \in [found : {TRUE}, thead : BOOLEAN,
                rows : UNION {[1..n -> TableRows] : n \in 0..MaxRows}] :
        \A k \in 1..Len(table.rows) : table.rows[k].in_thead => table.thead}

InitTable ==
    /\ html_sample \in Tables
    /\ financials = <<>>
    /\ emitted = <<>>
    /\ pc = "table"
    /\ csv = <<>>
    /\ records = <<>>
    /\ dir = {}
    /\ run = 1
    /\ i = 1
    /\ html_content = EmptyHtml
    /\ latest_file = NoFile
    /\ details = <<>>
    /\ exc = NoExc
    /\ processed_records = <<>>
    /\ df = <<>>
    /\ sink = [xlsx |-> <<>>, csv |-> <<>>]
    /\ trace = <<>>
    /\ first_run = <<>>

\* "financials": extractor.extract_table("#financials")   (extractor.py:288)
ExtractTable ==
    /\ pc = "table"
    /\ financials' = extract_table(html_sample)
    /\ emitted' = table_rows(html_sample)
    /\ pc' = "table_done"
    /\ UNCHANGED <<html_sample, csv, records, dir, run, i, html_content, latest_file,
                   details, exc, processed_records, df, sink, trace, first_run>>

NextTable == ExtractTable

SpecTable == InitTable /\ [][NextTable]_vars

(***************************************************************************)
(* Vocabulary of the properties.                                            *)
(***************************************************************************)
Terminal == {"success", "failed", "error"}

\* The for loop is over.
LoopDone == pc \in {"to_excel", "to_csv", "returned", "raised"}

\* The iteration of record k is over.
Finished(k) == k < i \/ LoopDone

HasLink(k) == Truthy(Get(csv[k], "link", None))

Status(k) == Get(records[k], "scraping_status", None)

\* How many references to record k processed_records holds.
Count(k) == Cardinality({n \in 1..Len(processed_records) : processed_records[n] = k})

\* Record k, as it is now, is a row of the DataFrame handed to the export.
InDataFrame(k) ==
    \E n \in 1..Len(df) : processed_records[n] = k /\ df[n] = records[k]

\* The file the lookup of record k selected was read and holds a page.
CacheHit(k) ==
    /\ trace[k].read = "ok"
    /\ ~trace[k].sel.html.empty

(***************************************************************************)
(* Properties.                                                              *)
(***************************************************************************)

\* C1 as stated: whenever any exception was raised while record k was fetched,
\* cached or extracted (inside the fetch collaborator included), record k ends
\* with status "error" and a non-empty error_message, is handed to the export,
\* and every later record reaches a terminal status.
C1_AnyExceptionEndsInError ==
    \A k \in 1..Len(records) :
        (Finished(k) /\ (trace[k].driver_raised \/ trace[k].raised # "")) =>
            /\ Status(k) = "error"
            /\ Truthy(Get(records[k], "error_message", None))
            /\ Count(k) = 1
            /\ LoopDone =>
                   /\ InDataFrame(k)
                   /\ \A j \in (k + 1)..Len(records) : Status(j) \in Terminal

\* C1 amended: whenever an exception reached the handler of the loop body while
\* record k was processed (raised by saving the fetched page or by extraction;
\* an exception of the driver never does, get_page_source turns it into empty
\* content), record k ends with status "error" and a non-empty error_message, is
\* in the set handed to the export exactly once, and every later record that
\* has a link reaches a terminal status and is handed to the export too.
C1_CaughtExceptionEndsInError ==
    \A k \in 1..Len(records) :
        (Finished(k) /\ trace[k].raised # "") =>
            /\ Status(k) = "error"
            /\ Truthy(Get(records[k], "error_message", None))
            /\ Count(k) = 1
            /\ LoopDone =>
                   /\ InDataFrame(k)
                   /\ \A j \in (k + 1)..Len(records) :
                          HasLink(j) => Status(j) \in Terminal /\ InDataFrame(j)

\* C1 witness: the first record raised in extraction, a later record with a
\* link was processed after it, and the loop is over.
C1_Witness ==
    /\ LoopDone
    /\ Len(records) >= 2
    /\ trace[1].raised = "extract"
    /\ HasLink(2)
    /\ Status(2) \in Terminal

\* C2 as stated: after the loop every record of the input batch is in the
\* accumulated set exactly once.
C2_EveryRecordExported ==
    LoopDone => \A k \in 1..Len(records) : Count(k) = 1

\* C2 amended: after the loop every record of the input batch that has a link
\* (failed and errored ones included) is in the accumulated set exactly once, in
\* input order, and that set is what the export is handed; a record without a
\* link is skipped and is not in the output.
C2_EveryLinkedRecordExported ==
    LoopDone =>
        /\ \A k \in 1..Len(records) : Count(k) = IF HasLink(k) THEN 1 ELSE 0
        /\ \A m \in 1..Len(processed_records), n \in 1..Len(processed_records) :
               m < n => processed_records[m] < processed_records[n]
        /\ df = DataFrame(records, processed_records)

\* C2 witness: the loop is over with a failed and an errored record, both kept.
C2_Witness ==
    /\ LoopDone
    /\ \E k \in 1..Len(records) : Status(k) = "failed" /\ InDataFrame(k)
    /\ \E k \in 1..Len(records) : Status(k) = "error" /\ InDataFrame(k)

\* C3 (the claim; the code violates it): once a record whose fetch returned a
\* page is processed, the page was persisted, so a cache file for the record's
\* identifier exists, and the record was then extracted.
C3_FetchedPageCachedThenExtracted ==
    \A k \in 1..Len(records) :
        (Finished(k) /\ trace[k].fetched_page) =>
            /\ \E f \in dir : f.id = Get(csv[k], "id_imovel", "unknown") /\ f.readable
            /\ trace[k].raised = ""
            /\ trace[k].extracted

\* C4 as stated: in one run every input record has scraping_status assigned
\* exactly once, to success, failed or error.
C4_EveryStatusSetOnce ==
    \A k \in 1..Len(records) :
        /\ trace[k].writes <= 1
        /\ Finished(k) => trace[k].writes = 1 /\ Status(k) \in Terminal

\* C4 amended: in one run every input record that has a link has
\* scraping_status assigned exactly once, when its iteration ends, to success,
\* failed or error, and it is never assigned again; a record without a link is
\* never assigned a status.
C4_LinkedStatusSetOnce ==
    \A k \in 1..Len(records) :
        /\ trace[k].writes <= 1
        /\ trace[k].writes = 0 => "scraping_status" \notin DOMAIN records[k]
        /\ Finished(k) =>
               IF HasLink(k)
               THEN trace[k].writes = 1 /\ Status(k) \in Terminal
               ELSE trace[k].writes = 0

\* C4 witness: the loop is over with a record of each terminal status reached
\* in this batch (a successful and a failed one).
C4_Witness ==
    /\ LoopDone
    /\ \E k \in 1..Len(records) : Status(k) = "success" /\ trace[k].writes = 1
    /\ \E k \in 1..Len(records) : Status(k) = "failed" /\ trace[k].writes = 1

\* C5: a record whose fetch returned empty content ends with status "failed",
\* is in the accumulated set (and in the DataFrame handed to the export), had no
\* extraction attempted: no detail field, no raw_dados_imovel and no
\* error_message is written to it; the loop has moved on to the next record.
C5_EmptyFetchFails ==
    \A k \in 1..Len(records) :
        trace[k].fetched_empty =>
            /\ Finished(k)
            /\ Status(k) = "failed"
            /\ Count(k) = 1
            /\ LoopDone => InDataFrame(k)
            /\ ~trace[k].extracted
            /\ DOMAIN records[k] \cap (Vocabulary \cup {"raw_dados_imovel", "error_message"}) = {}

\* C5 witness: the driver returned an empty page for the first record and the
\* second record has been processed after it.
C5_Witness ==
    /\ LoopDone
    /\ Len(records) >= 2
    /\ trace[1].fetched_empty
    /\ ~trace[1].driver_raised
    /\ Status(2) \in Terminal

\* C6 as stated: whenever a cache file of the record's identifier exists and is
\* read successfully, the fetch collaborator is not invoked for the record and
\* saved_html_path is the selected file.
C6_ReadCacheSkipsFetch ==
    \A k \in 1..Len(records) :
        trace[k].read = "ok" =>
            /\ trace[k].fetches = 0
            /\ "saved_html_path" \in DOMAIN records[k]
            /\ records[k]["saved_html_path"] = PathOf(trace[k].sel)

\* Every record of the batch that has a link is served from the cache.
AllHit == \A k \in 1..Len(records) : HasLink(k) => CacheHit(k)

\* C6 amended: whenever the selected cache file is read successfully and is not
\* empty, the fetch collaborator is not invoked for the record and
\* saved_html_path is the selected file (an empty file that is read counts as a
\* miss and is fetched; a record without id_imovel, or with "unknown", is never
\* looked up); hence a re-run over a directory that holds such a file for every
\* record with a link makes no fetch and leaves every record as the first run
\* left it.
C6_HitSkipsFetch ==
    /\ \A k \in 1..Len(records) :
           CacheHit(k) =>
               /\ trace[k].fetches = 0
               /\ "saved_html_path" \in DOMAIN records[k]
               /\ records[k]["saved_html_path"] = PathOf(trace[k].sel)
    /\ (run > 1 /\ LoopDone /\ AllHit) =>
           /\ \A k \in 1..Len(records) : trace[k].fetches = 0
           /\ records = first_run

\* C6 witness: a second run is over in which every record was served from the
\* cache and one of them was extracted successfully.
C6_Witness ==
    /\ run = 2
    /\ LoopDone
    /\ AllHit
    /\ \E k \in 1..Len(records) : Status(k) = "success" /\ CacheHit(k)

\* C7: when the selected cache file cannot be opened or read, the exception
\* does not reach the handler of the loop body: get_page_source is invoked once
\* with the record's link, and if the record ends with status "error" it is
\* because saving the fetched page raised, with that exception's message.
C7_UnreadableCacheIsMiss ==
    \A k \in 1..Len(records) :
        (trace[k].read = "fail" /\ Finished(k)) =>
            /\ trace[k].fetches = 1
            /\ trace[k].fetch_url = Get(csv[k], "link", None)
            /\ "saved_html_path" \notin DOMAIN records[k]
            /\ Status(k) \in {"failed", "error"}
            /\ Status(k) = "failed" <=> trace[k].fetched_empty
            /\ Status(k) = "error" =>
                   /\ trace[k].raised = "save"
                   /\ records[k]["error_message"] = str(AttributeError)

\* C7 witness: the cache file of a record could not be read, the record was
\* fetched, and its iteration is over.
C7_Witness ==
    \E k \in 1..Len(records) :
        /\ trace[k].read = "fail"
        /\ Finished(k)
        /\ trace[k].fetches = 1
        /\ trace[k].fetched_page

\* The files of the directory written for the identifier of the record, and
\* the files the pattern of the record matches.
OwnFiles == {f \in dir : f.id = id_imovel}
Matched == glob(dir, id_imovel)

C9_ExportFallback ==
    /\ pc \in {"to_excel", "to_csv"} => df = DataFrame(records, processed_records)
    /\ pc = "to_csv" => exc = ExportError /\ sink.xlsx = <<>> /\ sink.csv = <<>>
    /\ sink.csv # <<>> =>
           /\ sink.csv[1] = DataFrame(records, processed_records)
           /\ sink.xlsx = <<>>
           /\ pc = "returned"
    /\ (pc = "returned" /\ processed_records # <<>>) =>
           sink.xlsx = <<df>> \/ sink.csv = <<df>>
    /\ pc = "raised" => exc = ExportError /\ sink.xlsx = <<>> /\ sink.csv = <<>>

\* C9 witness: to_excel failed and the fallback wrote both records of a batch,
\* one of them a failed one.
C9_Witness ==
    /\ pc = "returned"
    /\ sink.xlsx = <<>>
    /\ sink.csv # <<>>
    /\ Len(sink.csv[1]) = 2
    /\ \E n \in 1..2 : sink.csv[1][n]["scraping_status"] = "failed"

\* C10 (the claim; the code violates it): when the container element is
\* present, the mapping extract_property_details returns holds every key of the
\* detail vocabulary.
C10_EveryKeyPresent ==
    (trace[1].extracted /\ html_content.container) => DOMAIN details = Vocabulary

\* C11: when extract_property_details is called on a page that lacks the
\* container element it returns the empty mapping and raises nothing, and the
\* record is treated as a success: scraping_status = "success", no key of the
\* detail vocabulary and no error_message is written to it, raw_dados_imovel is
\* "Not Found", and it is in the accumulated set once.
C11_NoContainerIsSuccess ==
    \A k \in 1..Len(records) :
        (trace[k].extracted /\ ~trace[k].sel.html.container) =>
            /\ i = k + 1 => DOMAIN details = {}
            /\ trace[k].raised = ""
            /\ Status(k) = "success"
            /\ DOMAIN records[k] \cap (Vocabulary \cup {"error_message"}) = {}
            /\ records[k]["raw_dados_imovel"] = "Not Found"
            /\ Count(k) = 1
            /\ LoopDone => InDataFrame(k)

\* C11 witness: the loop is over and a record whose cached page has no container
\* element was extracted.
C11_Witness ==
    /\ LoopDone
    /\ \E k \in 1..Len(records) :
           /\ trace[k].extracted
           /\ trace[k].sel.html = NoContainerHtml
           /\ Status(k) = "success"

\* The set of positions a list of positions holds.
Range(seq) == {seq[n] : n \in 1..Len(seq)}

\* C12: for a table whose header has H cells, extract_table returns one mapping
\* for each row after the header position that has exactly H cells and for no
\* other row, in document order; each mapping has every header as a key with
\* the text of the row's cell at that header's position (nothing truncated,
\* nothing padded); a row with more or fewer cells than H is absent.
C12_OnlyRowsOfHeaderWidth ==
    pc = "table_done" =>
        LET rows == html_sample.rows
            hdrs == headers(html_sample)
            H == Len(hdrs)
        IN  /\ Len(financials) = Len(emitted)
            /\ \A n \in 1..Len(emitted) :
                   /\ emitted[n] \in 1..Len(rows)
                   /\ Len(rows[emitted[n]].cells) = H
                   /\ \A m \in 1..(n - 1) : emitted[m] < emitted[n]
                   /\ DOMAIN financials[n] = {hdrs[j] : j \in 1..H}
                   /\ \A j \in 1..H :
                          (\A m \in (j + 1)..H : hdrs[m] # hdrs[j]) =>
                              financials[n][hdrs[j]] = rows[emitted[n]].cells[j]
            /\ \A k \in 1..Len(rows) :
                   Len(rows[k].cells) # H => k \notin Range(emitted)
            /\ \A k \in (start_index(html_sample) + 1)..Len(rows) :
                   (html_sample.found /\ Len(rows[k].cells) = H) => k \in Range(emitted)

\* C12 witness: a table with a two-cell header was extracted; a row of two cells
\* is in the result, and a row of three cells and a row of one cell are not.
C12_Witness ==
    /\ pc = "table_done"
    /\ Len(headers(html_sample)) = 2
    /\ Len(html_sample.rows) >= 3
    /\ Len(financials) >= 1
    /\ \E k \in 1..Len(html_sample.rows) :
           Len(html_sample.rows[k].cells) = 3 /\ k \notin Range(emitted)
    /\ \E k \in Range(emitted) : \E j \in 1..Len(html_sample.rows) :
           j > k /\ Len(html_sample.rows[j].cells) < 2

\* C13 (the claim; the code violates it): the header row is the first row of
\* the thead when the table has one and the first row of the table otherwise,
\* and the header row is never among the rows extract_table emits.
C13_HeaderRowNeverEmitted ==
    (pc = "table_done" /\ html_sample.found) =>
        /\ html_sample.thead =>
               \A k \in 1..Len(html_sample.rows) :
                   html_sample.rows[k].in_thead => header_row(html_sample) \in 1..k
        /\ (~html_sample.thead /\ html_sample.rows # <<>>) => header_row(html_sample) = 1
        /\ header_row(html_sample) \notin Range(emitted)

\* The fields main() itself writes to a record.
PipelineFields == {"scraping_status", "saved_html_path", "error_message", "raw_dados_imovel"}

\* The rows the export wrote, per file written.
Written == {t \in {sink.xlsx, sink.csv} : t # <<>>}

\* C14: every field of an input record that is neither a key of the detail
\* vocabulary nor one of the fields main() writes keeps its input value in the
\* record, in the record's row of the DataFrame and in the row the export
\* wrote, whatever status the record reached.
C14_PassthroughUnchanged ==
    \A k \in 1..Len(records) :
        \A key \in DOMAIN csv[k] \ (Vocabulary \cup PipelineFields) :
            /\ key \in DOMAIN records[k]
            /\ records[k][key] = csv[k][key]
            /\ \A n \in 1..Len(df) :
                   processed_records[n] = k =>
                       /\ key \in DOMAIN df[n]
                       /\ df[n][key] = csv[k][key]
                       /\ \A t \in Written :
                              key \in DOMAIN t[1][n] /\ t[1][n][key] = csv[k][key]

\* C14 witness: the export wrote a batch in which one record had the details of
\* a cached page merged into it and another one ended in error.
C14_Witness ==
    /\ pc = "returned"
    /\ sink.xlsx # <<>>
    /\ \E n \in 1..Len(df) :
           /\ df[n]["scraping_status"] = "success"
           /\ "Quartos" \in DOMAIN df[n]
           /\ df[n]["preco"] = "100"
    /\ \E n \in 1..Len(df) : df[n]["scraping_status"] = "error" /\ df[n]["preco"] = "100"

\* The hits of the matches of a label in the order get_text_after_label visits
\* them: per match the strong/b descendant of the parent, then the following
\* strong/b/span element.
RECURSIVE HitsInOrder(_)
HitsInOrder(matches) ==
    IF matches = <<>> THEN <<>>
    ELSE (IF Head(matches).strong # None THEN <<Head(matches).strong>> ELSE <<>>)
         \o (IF Head(matches).next # None THEN <<Head(matches).next>> ELSE <<>>)
         \o HitsInOrder(Tail(matches))

\* The first hit that is not empty, None without one.
FirstNonEmpty(hits) ==
    LET full == {n \in 1..Len(hits) : hits[n] # ""}
    IN  IF full = {} THEN None ELSE hits[CHOOSE n \in full : \A m \in full : n <= m]

\* C15 (the claim; the code violates it): the value of a label-keyed field is
\* the first non-empty hit over the matches of its label in document order,
\* each match tried at its parent's strong/b descendant first and at the
\* following strong/b/span element second; an empty hit does not end the search.
C15_FirstNonEmptyHitWins ==
    (trace[1].extracted /\ html_content.container) =>
        \A l \in {"Quartos", "Garagem", "Edital"} :
            details[l] = FirstNonEmpty(HitsInOrder(html_content.found[l]))

\* The positions of the dates that follow the first "1o Leilao" of a text.
DatesAfterFirstAuction(text) ==
    {k \in 1..Len(text) :
        /\ text[k] \in Dates
        /\ \E a \in 1..(k - 1) : text[a] = "1o Leilao"}

\* C16 (the claim; the code violates it): when in the paragraph text the label
\* of the first auction is followed by a date, Data_1_Leilao is the first date
\* after that label, also when further dates follow; the generic pattern
\* decides the field only when the dedicated pattern found no date.
C16_FirstAuctionDateIsFirstDate ==
    (trace[1].extracted /\ html_content.container /\ html_content.p_val # <<>>) =>
        LET text == html_content.p_val[1]
            after == DatesAfterFirstAuction(text)
        IN  IF after # {}
            THEN details["Data_1_Leilao"] = text[CHOOSE k \in after : \A j \in after : k <= j]
            ELSE details["Data_1_Leilao"] = SearchGenericDate(text)

\* C17 (the claim; the code violates it): CEP is the leftmost substring of the
\* extracted address that has the shape of a postal code (5 digits, hyphen,
\* 3 digits) when the address holds one, and the sentinel "N/A" in every other
\* case, the case that no address was extracted included: the key is never
\* missing and never None.
C17_CepOrSentinel ==
    (trace[1].extracted /\ html_content.container) =>
        /\ "CEP" \in DOMAIN details
        /\ LET endereco == IF "Endereco" \in DOMAIN details
                            THEN details["Endereco"] ELSE <<>>
                at == CepStarts(endereco)
            IN  details["CEP"] =
                    IF at = {} THEN <<"N", "/", "A">>
                    ELSE LET k == CHOOSE a \in at : \A b \in at : a <= b
                         IN  SubSeq(endereco, k, k + 8)

\* C18 (the claim; the code violates it): the lookup of a record finds only
\* files that were written for the record's identifier, and the page a record
\* is served from the cache was written for that identifier, also when one
\* identifier is a prefix of another or holds a glob metacharacter.
C18_OnlyOwnFilesServed ==
    pc # "lookup" =>
        /\ Matched \subseteq OwnFiles
        /\ trace[1].read = "ok" =>
               /\ latest_file.id = id_imovel
               /\ html_content = latest_file.html

====
